---- MODULE Spec2Model ----
(***************************************************************************)
(* A model of proust.py, the TeX-aware inline calculator for Vim.          *)
(*                                                                         *)
(* Text is modelled as sequences of one-character strings.  The state is   *)
(* the editor's current line and cursor column, the triple cut out of the  *)
(* line by find_expression, the answer of evaluate_expression and the      *)
(* position of the filter's main block.  The library functions choose and  *)
(* factors are checked under specifications of their own.                  *)
(***************************************************************************)
EXTENDS Integers, Sequences, FiniteSets, TLC

VARIABLES line, col, prefix, expression, suffix, answer, pc, exc, round,
          args, ret

vars == <<line, col, prefix, expression, suffix, answer, pc, exc, round,
          args, ret>>

(***************************************************************************)
(* Bounds of the model.                                                    *)
(***************************************************************************)
MaxLineLen == 4
MaxToks == 4
MaxRounds == 2
MaxN == 11
MaxFactorN == 300

\* the smallest library argument drawn, so that arguments below zero occur
MinArg == 0 - 2

(***************************************************************************)
(* Sequence helpers.                                                       *)
(***************************************************************************)
Min(a, b) == IF a < b THEN a ELSE b

\* the least and the greatest element of a non-empty set of numbers
SetMin(S) == CHOOSE x \in S : \A y \in S : x <= y
SetMax(S) == CHOOSE x \in S : \A y \in S : y <= x

\* the element of a singleton: Only({e : x \in {v}}) is e with x bound to v
Only(S) == CHOOSE x \in S : TRUE

\* Python's s[i:j] for 0 <= i, 0-indexed, j exclusive
Slice(s, i, j) == SubSeq(s, i + 1, Min(j, Len(s)))

\* Python's s[i:]
SliceFrom(s, i) == SubSeq(s, i + 1, Len(s))

\* all sequences over S of length at most n
SeqsUpTo(S, n) == UNION {[1..k -> S] : k \in 0..n}

(***************************************************************************)
(* find_expression                                                         *)
(***************************************************************************)
Letters == {"a","b","c","d","e","f","g","h","i","j","k","l","m","n","o",
            "p","q","r","s","t","u","v","w","x","y","z"}
Digits == {"0","1","2","3","4","5","6","7","8","9"}

\* alphabet = "'abcdefghijklmnopqrstuvwxyz1234567890!,.-+*/^\\{}()"
Alphabet == {"'"} \cup Letters \cup Digits
            \cup {"!", ",", ".", "-", "+", "*", "/", "^", "\\", "{", "}", "(", ")"}

\* the characters accepted while the target is still empty: '=' + alphabet
FirstChars == {"="} \cup Alphabet

\* a blank skipped with col left where it was
FindBlankColKept(c) == c

\* the blank skipped while the target is still empty moves col one to the left
FindBlankCol(c) == c - 1

\* The body of 'while p >= 0' with p, target and col as the loop's state; p is
\* the 0-indexed position about to be read.  The result is the state the loop
\* is left in: by p < 0, or by the break on a character outside the alphabet
\* (p = p + 1 puts p back on it).
RECURSIVE FindLoop(_, _, _, _)
FindLoop(ln, p, target, c) ==
  CASE p < 0 -> [p |-> p, target |-> target, col |-> c]
    [] p >= 0 /\ Len(target) = 0 /\ ln[p + 1] \in FirstChars ->
         FindLoop(ln, p - 1, <<ln[p + 1]>>, c)
    [] p >= 0 /\ Len(target) = 0 /\ ln[p + 1] = " " ->
         FindLoop(ln, p - 1, target, FindBlankCol(c))
    [] p >= 0 /\ Len(target) = 0 /\ ln[p + 1] \notin FirstChars \cup {" "} ->
         FindLoop(ln, p - 1, target, c)
    [] p >= 0 /\ Len(target) > 0 /\ ln[p + 1] \in Alphabet ->
         FindLoop(ln, p - 1, <<ln[p + 1]>> \o target, c)
    [] OTHER -> [p |-> p, target |-> target, col |-> c]

\* find_expression(line, col): raised is "IndexError" where line[p] reads past
\* the end of the line, "none" where the triple is returned.
find_expression(ln, c) ==
  IF Len(ln) = 0
  THEN [raised |-> "none", prefix |-> <<>>, expression |-> <<>>, suffix |-> <<>>]
  ELSE IF c = 0
  THEN [raised |-> "none", prefix |-> <<>>, expression |-> <<>>, suffix |-> ln]
  ELSE IF c >= Len(ln)
  THEN [raised |-> "IndexError", prefix |-> <<>>, expression |-> <<>>, suffix |-> <<>>]
  ELSE LET r == FindLoop(ln, c, <<>>, c) IN
       [raised |-> "none",
        prefix |-> Slice(ln, 0, r.p + 1),
        expression |-> r.target,
        suffix |-> SliceFrom(ln, r.col + 1)]

(***************************************************************************)
(* choose                                                                  *)
(***************************************************************************)
ChooseRangeShort(n, k) == Min(k, n - k) - 1

\* the last t of range(1, min(k, n - k) + 1)
ChooseRange(n, k) == Min(k, n - k)

\* for t in range(1, last + 1): ntok *= n; ktok *= t; n -= 1
RECURSIVE ChooseLoop(_, _, _, _, _)
ChooseLoop(t, last, ntok, ktok, n) ==
  IF t > last THEN [ntok |-> ntok, ktok |-> ktok]
  ELSE ChooseLoop(t + 1, last, ntok * n, ktok * t, n - 1)

\* the running product and quotient when the loop of choose(n, k) ends
ChooseToks(n, k) == ChooseLoop(1, ChooseRange(n, k), 1, 1, n)

choose(n, k) ==
  IF 0 <= k /\ k <= n
  THEN LET r == ChooseToks(n, k) IN r.ntok \div r.ktok
  ELSE 0

(***************************************************************************)
(* ifactors, factors                                                       *)
(***************************************************************************)
FCycle == <<4, 2, 4, 2, 4, 6, 2, 6>>

IncrementShortLead(i) ==
  IF i < 2 THEN <<1, 2>>[i + 1] ELSE FCycle[((i - 2) % 8) + 1]

\* the i-th (from 0) element of itertools.chain([1, 2, 2], f_cycle)
Increment(i) ==
  IF i < 3 THEN <<1, 2, 2>>[i + 1] ELSE FCycle[((i - 3) % 8) + 1]

\* while n % f == 0: yield f; n //= f
RECURSIVE DivideOut(_, _, _)
DivideOut(n, f, out) ==
  IF n % f = 0 THEN DivideOut(n \div f, f, Append(out, f))
  ELSE [n |-> n, out |-> out]

\* for incr in increments: ...; i counts the increments taken so far
RECURSIVE IFactorsLoop(_, _, _, _)
IFactorsLoop(f, n, i, out) ==
  IF f * f > n THEN (IF n > 1 THEN Append(out, n) ELSE out)
  ELSE LET d == DivideOut(n, f, out) IN
       IFactorsLoop(f + Increment(i), d.n, i + 1, d.out)

factors(n) == IFactorsLoop(2, n, 0, <<>>)

(***************************************************************************)
(* Numbers.  A Python int or float is the record [t, s, m, x] standing for *)
(* s * m * 10^x with s the sign (1 or -1), m >= 0 and m not a multiple of  *)
(* ten (zero is m = 0, x = 0; only a float zero may carry s = -1).         *)
(* Mantissas are kept below MaxMant: an operation whose exact result does  *)
(* not fit, or whose IEEE rounding the decimal form cannot give, answers   *)
(* "unmodelled", and no step of the model is taken on it.                  *)
(***************************************************************************)
MaxMant == 1000000000

Pow10Table == <<1, 10, 100, 1000, 10000, 100000, 1000000, 10000000, 100000000,
                1000000000>>
Pow5Table == <<1, 5, 25, 125, 625, 3125, 15625, 78125, 390625, 1953125>>

\* the largest power of ten (and of five) kept as a plain number
MaxPow == Len(Pow10Table) - 1

Pow10(k) == Pow10Table[k + 1]
Pow5(k) == Pow5Table[k + 1]

RECURSIVE Gcd(_, _)
Gcd(a, b) == IF b = 0 THEN a ELSE Gcd(b, a % b)

Abs(a) == IF a < 0 THEN 0 - a ELSE a

\* a * b fits below MaxMant (decided without forming a product that overflows)
MulFits(a, b) == a = 0 \/ b = 0 \/ a <= (MaxMant - 1) \div b

\* the zeros m # 0 ends with
TrailingZeros(m) == Cardinality({k \in 1..MaxPow : m % Pow10(k) = 0})

\* m * 10^x with the zeros m ends with moved into the exponent
StripTens(m, x) ==
  IF m = 0 THEN [m |-> m, x |-> x]
  ELSE [m |-> m \div Pow10(TrailingZeros(m)), x |-> x + TrailingZeros(m)]

\* the number of decimal digits of m >= 0
NDigits(m) == IF m < 10 THEN 1 ELSE Cardinality({k \in 0..MaxPow : Pow10(k) <= m})

Num(t, s, m, x) ==
  IF m = 0 THEN [t |-> t, s |-> IF t = "float" THEN s ELSE 1, m |-> 0, x |-> 0]
  ELSE [t |-> t, s |-> s, m |-> StripTens(m, x).m, x |-> StripTens(m, x).x]

IntVal(n) == Num("int", IF n < 0 THEN 0 - 1 ELSE 1, Abs(n), 0)

IsNum(v) == v.t \in {"int", "float"}
IsZero(v) == v.m = 0

\* the position of the decimal point: the value is 0.d1d2... * 10^DecPt
DecPt(v) == NDigits(v.m) + v.x

\* v as a plain integer, where it is one and is small
IsSmallInt(v) == v.m = 0 \/ (v.x >= 0 /\ v.x <= MaxPow /\ MulFits(v.m, Pow10(v.x)))
PlainInt(v) == v.s * v.m * Pow10(v.x)

\* v is a value a double holds exactly: an integer below 2^53 or a dyadic
\* fraction (decided on the safe side)
ExactDouble(v) ==
  \/ v.m = 0
  \/ v.x >= 0 /\ (v.x <= 6 \/ (v.m < 10 /\ v.x <= 15) \/ (v.m = 1 /\ v.x <= 22))
  \/ v.x < 0 /\ 0 - v.x <= MaxPow /\ v.m % Pow5(0 - v.x) = 0

\* the outcome of an operation: st is "ok", the name of the exception raised,
\* or "unmodelled"
Ok(v) == [st |-> "ok", v |-> v]
Raise(name) == [st |-> name, v |-> [t |-> "none"]]
Unmodelled == [st |-> "unmodelled", v |-> [t |-> "none"]]

\* the sum of two aligned mantissas with their signs, as a number
NumOfSum(t, sum, x, negzero) ==
  CASE sum = 0 -> Ok(Num(t, IF negzero THEN 0 - 1 ELSE 1, 0, 0))
    [] sum # 0 /\ StripTens(Abs(sum), x).m >= MaxMant -> Unmodelled
    [] OTHER -> Ok(Num(t, IF sum < 0 THEN 0 - 1 ELSE 1, Abs(sum), x))

NumAddAligned(t, sa, ma, sb, mb, x, negzero) ==
  NumOfSum(t, sa * ma + sb * mb, x, negzero)

ResultType(a, b) == IF a.t = "int" /\ b.t = "int" THEN "int" ELSE "float"

\* a float operation is given by its exact result only on exact operands
FloatOperandsOk(a, b) ==
  ResultType(a, b) = "int" \/ (ExactDouble(a) /\ ExactDouble(b))

\* the two mantissas can be brought to the exponent x
Alignable(a, b, x) ==
  /\ a.x - x <= MaxPow
  /\ b.x - x <= MaxPow
  /\ MulFits(a.m, Pow10(a.x - x))
  /\ MulFits(b.m, Pow10(b.x - x))

\* a + b for a and b other than zero, at the smaller exponent x of the two
NumAddAt(a, b, x) ==
  IF ~Alignable(a, b, x) THEN Unmodelled
  ELSE NumAddAligned(ResultType(a, b), a.s, a.m * Pow10(a.x - x),
                     b.s, b.m * Pow10(b.x - x), x, FALSE)

\* -0.0 + -0.0 is -0.0, every other sum of zeros is 0
ZeroSum(a, b) ==
  Num(ResultType(a, b), IF a.s < 0 /\ b.s < 0 THEN 0 - 1 ELSE 1, 0, 0)

NumAdd(a, b) ==
  CASE ~FloatOperandsOk(a, b) -> Unmodelled
    [] FloatOperandsOk(a, b) /\ a.m = 0 /\ b.m = 0 -> Ok(ZeroSum(a, b))
    [] FloatOperandsOk(a, b) /\ a.m = 0 /\ b.m # 0 ->
         Ok(Num(ResultType(a, b), b.s, b.m, b.x))
    [] FloatOperandsOk(a, b) /\ a.m # 0 /\ b.m = 0 ->
         Ok(Num(ResultType(a, b), a.s, a.m, a.x))
    [] OTHER -> NumAddAt(a, b, Min(a.x, b.x))

NumNeg(a) == IF a.t = "int" THEN Num("int", 0 - a.s, a.m, a.x)
             ELSE [a EXCEPT !.s = 0 - a.s]

\* a - b with b an int zero keeps the sign of a float zero a: -0.0 - 0 is -0.0
NumSub(a, b) ==
  NumAdd(a, IF b.t = "int" /\ b.m = 0 THEN [b EXCEPT !.s = 0 - 1] ELSE NumNeg(b))

NumMul(a, b) ==
  IF ~FloatOperandsOk(a, b) \/ ~MulFits(a.m, b.m) THEN Unmodelled
  ELSE Ok(Num(ResultType(a, b), a.s * b.s, a.m * b.m, a.x + b.x))

\* a float result is kept while it is far from overflow and underflow
FloatRangeOk(v) == v.m = 0 \/ (DecPt(v) <= 300 /\ DecPt(v) >= 0 - 300)

\* the least k <= MaxPow with d | 10^k, or -1 where 1/d has no such expansion
TenPowerFor(d) ==
  LET ks == {k \in 0..MaxPow : Pow10(k) % d = 0}
  IN IF ks = {} THEN 0 - 1 ELSE SetMin(ks)

\* a float result is kept while it is far from overflow and underflow
FloatResult(r) == IF FloatRangeOk(r) THEN Ok(r) ELSE Unmodelled

\* s * (n / d) * 10^x for n / d in lowest terms and 10^k the least power of
\* ten that d divides (k < 0: there is none)
DivByPower(s, n, d, x, k) ==
  CASE k < 0 -> Unmodelled
    [] k >= 0 /\ ~MulFits(n, Pow10(k) \div d) -> Unmodelled
    [] OTHER -> FloatResult(Num("float", s, n * (Pow10(k) \div d), x - k))

\* the exact quotient (sa*ma*10^xa) / (sb*mb*10^xb), mb # 0, as a float where
\* it is a decimal of the model: the correctly rounded double prints as it
DivExact(sa, ma, xa, sb, mb, xb) ==
  IF ma = 0 THEN Ok(Num("float", sa * sb, 0, 0))
  ELSE DivByPower(sa * sb, ma \div Gcd(ma, mb), mb \div Gcd(ma, mb), xa - xb,
                  TenPowerFor(mb \div Gcd(ma, mb)))

NumTrueDiv(a, b) ==
  CASE b.m = 0 -> Raise("ZeroDivisionError")
    [] b.m # 0 /\ ~FloatOperandsOk(a, b) -> Unmodelled
    [] OTHER -> DivExact(a.s, a.m, a.x, b.s, b.m, b.x)

\* Python's floor division of plain integers
FloorDivInt(a, b) ==
  LET q == Abs(a) \div Abs(b)
      r == Abs(a) % Abs(b)
  IN IF (a < 0) = (b < 0) THEN q
     ELSE IF r = 0 THEN 0 - q ELSE 0 - q - 1

NumFloorDiv(a, b) ==
  CASE b.m = 0 -> Raise("ZeroDivisionError")
    [] b.m # 0 /\ ResultType(a, b) = "int" /\ IsSmallInt(a) /\ IsSmallInt(b) ->
         Ok(IntVal(FloorDivInt(PlainInt(a), PlainInt(b))))
    [] OTHER -> Unmodelled

\* a * b, or -1 where it does not fit below MaxMant or a factor did not
MantMul(a, b) == IF a < 0 \/ b < 0 \/ ~MulFits(a, b) THEN 0 - 1 ELSE a * b

\* h * h, times m for an odd exponent; -1 where h is
MantSquare(h, m, odd) ==
  CASE h < 0 -> 0 - 1
    [] h >= 0 /\ odd -> MantMul(MantMul(h, h), m)
    [] OTHER -> MantMul(h, h)

\* the largest exponent a mantissa above one is raised to: 2^30 is above
\* MaxMant already
MaxMantExponent == 30

\* m^n for m >= 1 and n >= 0, by squaring, or -1 where it does not fit below
\* MaxMant
RECURSIVE MantPow(_, _)
MantPow(m, n) ==
  CASE n = 0 -> 1
    [] n > 0 /\ m = 1 -> 1
    [] n > MaxMantExponent /\ m > 1 -> 0 - 1
    [] OTHER -> MantSquare(MantPow(m, n \div 2), m, n % 2 = 1)

IsIntegral(v) == v.m = 0 \/ v.x >= 0
IsOdd(v) == v.m # 0 /\ v.x = 0 /\ v.m % 2 = 1

\* the largest exponent the model raises to
MaxExponent == 400

\* int ** int is an int for an exponent that is not below zero
PowType(a, b) ==
  IF a.t = "int" /\ b.t = "int" /\ (b.s > 0 \/ b.m = 0) THEN "int" ELSE "float"

\* the sign of a ** b for an integral b
PowSign(a, b) == IF a.s < 0 /\ IsOdd(b) THEN 0 - 1 ELSE 1

\* 1 ** b, and (-1) ** b for an integral b
PowOfOne(a, b) == a.m = 1 /\ a.x = 0 /\ (a.s > 0 \/ IsIntegral(b))

\* the powers the model works out: exact operands, a small integral exponent
PowModelled(a, b) ==
  /\ PowType(a, b) = "int" \/ (ExactDouble(a) /\ ExactDouble(b))
  /\ IsIntegral(b)
  /\ IsSmallInt(b)
  /\ Abs(PlainInt(b)) <= MaxExponent

\* a ** b from p = |a.m| ^ n, n = |b|: the power itself for b > 0, one over
\* it for b < 0
PowFrom(a, b, n, p) ==
  CASE p < 0 -> Unmodelled
    [] p >= 0 /\ b.s > 0 /\ PowType(a, b) = "int" ->
         Ok(Num("int", PowSign(a, b), p, a.x * n))
    [] p >= 0 /\ b.s > 0 /\ PowType(a, b) # "int" ->
         FloatResult(Num("float", PowSign(a, b), p, a.x * n))
    [] OTHER -> DivExact(PowSign(a, b), 1, 0, 1, p, a.x * n)

\* a ** b for numbers a and b
NumPow(a, b) ==
  CASE b.m = 0 -> Ok(Num(PowType(a, b), 1, 1, 0))
    [] b.m # 0 /\ a.m = 0 /\ b.s < 0 -> Raise("ZeroDivisionError")
    [] b.m # 0 /\ a.m = 0 /\ b.s >= 0 -> Ok(Num(PowType(a, b), PowSign(a, b), 0, 0))
    [] b.m # 0 /\ a.m # 0 /\ PowOfOne(a, b) ->
         Ok(Num(PowType(a, b), PowSign(a, b), 1, 0))
    [] b.m # 0 /\ a.m # 0 /\ ~PowOfOne(a, b) /\ PowModelled(a, b) ->
         PowFrom(a, b, Abs(PlainInt(b)), MantPow(a.m, Abs(PlainInt(b))))
    [] OTHER -> Unmodelled

(***************************************************************************)
(* Text forms of numbers: str() of an int, repr() of a float, '%g'.       *)
(***************************************************************************)
DigitChar(d) == <<"0", "1", "2", "3", "4", "5", "6", "7", "8", "9">>[d + 1]

\* the decimal digits of m >= 0
DigitsOf(m) ==
  [i \in 1..NDigits(m) |-> DigitChar((m \div Pow10(NDigits(m) - i)) % 10)]

Zeros(n) == [i \in 1..n |-> "0"]

SignText(v) == IF v.s < 0 THEN <<"-">> ELSE <<>>

\* str(int)
StrInt(v) == SignText(v) \o DigitsOf(v.m) \o Zeros(v.x)

\* the exponent part of a float's text: e, the sign, at least two digits
ExpText(e) ==
  <<"e", IF e < 0 THEN "-" ELSE "+">>
  \o (IF Abs(e) < 10 THEN <<"0">> ELSE <<>>) \o DigitsOf(Abs(e))

\* d1.d2d3...e+XX for the digits d and decimal point dp
SciText(d, dp) ==
  <<d[1]>> \o (IF Len(d) > 1 THEN <<".">> \o SubSeq(d, 2, Len(d)) ELSE <<>>)
  \o ExpText(dp - 1)

\* the digits d laid out in positional notation with the point after dp digits
FixedText(d, dp, tail) ==
  IF dp <= 0 THEN <<"0", ".">> \o Zeros(0 - dp) \o d
  ELSE IF dp >= Len(d) THEN d \o Zeros(dp - Len(d)) \o tail
  ELSE SubSeq(d, 1, dp) \o <<".">> \o SubSeq(d, dp + 1, Len(d))

\* repr(float): positional for -4 < decpt <= 16, else with an exponent
ReprUsesExponent(dp) == dp <= 0 - 4 \/ dp > 16

ReprFloat(v) ==
  IF v.m = 0 THEN SignText(v) \o <<"0", ".", "0">>
  ELSE LET d == DigitsOf(v.m)
           dp == DecPt(v)
       IN SignText(v)
          \o (IF ReprUsesExponent(dp) THEN SciText(d, dp)
              ELSE FixedText(d, dp, <<".", "0">>))

\* v rounded to six significant digits, half to even; "tie" where the decimal
\* is a tie the double behind it may break either way
RoundSig6(v) ==
  LET n == NDigits(v.m) IN
  IF v.m = 0 \/ n <= 6 THEN Ok([v EXCEPT !.t = "float"])
  ELSE LET cut == Pow10(n - 6)
           q == v.m \div cut
           r == v.m % cut
           half == 5 * Pow10(n - 7)
       IN IF r = half /\ ~ExactDouble(v) THEN Unmodelled
          ELSE IF r > half \/ (r = half /\ q % 2 = 1)
          THEN Ok(Num("float", v.s, q + 1, v.x + n - 6))
          ELSE Ok(Num("float", v.s, q, v.x + n - 6))

\* '%g' % v for a float v of at most six significant digits
GText(v) ==
  IF v.m = 0 THEN SignText(v) \o <<"0">>
  ELSE LET d == DigitsOf(v.m)
           dp == DecPt(v)
       IN SignText(v)
          \o (IF dp - 1 < 0 - 4 \/ dp - 1 >= 6 THEN SciText(d, dp)
              ELSE FixedText(d, dp, <<>>))

\* |a - b| for two decimals whatever their types, or unmodelled
AbsDiff(a, b) ==
  LET x == Min(a.x, b.x)
      da == a.x - x
      db == b.x - x
  IN IF a.m = 0 THEN Ok(Num("float", 1, b.m, b.x))
     ELSE IF b.m = 0 THEN Ok(Num("float", 1, a.m, a.x))
     ELSE IF da > MaxPow \/ db > MaxPow THEN Unmodelled
     ELSE IF ~MulFits(a.m, Pow10(da)) \/ ~MulFits(b.m, Pow10(db)) THEN Unmodelled
     ELSE LET r == NumAddAligned("float", a.s, a.m * Pow10(da),
                                 0 - b.s, b.m * Pow10(db), x, FALSE)
          IN IF r.st = "ok" THEN Ok([r.v EXCEPT !.s = 1]) ELSE r

(***************************************************************************)
(* workout: the rewriting of TeX notation, line by line                    *)
(***************************************************************************)
\* str.strip(ch), str.lstrip(ch), str.rstrip(ch): the text from its first
\* character that is not ch, to its last
NotAt(s, ch) == {k \in 1..Len(s) : s[k] # ch}
LStrip(s, ch) ==
  IF NotAt(s, ch) = {} THEN <<>> ELSE SubSeq(s, SetMin(NotAt(s, ch)), Len(s))
RStrip(s, ch) ==
  IF NotAt(s, ch) = {} THEN <<>> ELSE SubSeq(s, 1, SetMax(NotAt(s, ch)))
Strip(s, ch) == LStrip(RStrip(s, ch), ch)

StartsAt(s, i, pat) ==
  /\ i + Len(pat) - 1 <= Len(s)
  /\ \A j \in 1..Len(pat) : s[i + j - 1] = pat[j]

\* the first position >= i where pat starts, or 0
FindFrom(s, i, pat) ==
  LET hits == {j \in i..Len(s) : StartsAt(s, j, pat)}
  IN IF hits = {} THEN 0 ELSE SetMin(hits)

\* str.replace(pat, rep), from position i on: the text before the next pat is
\* kept, rep stands for pat, and the scan goes on behind it
RECURSIVE ReplaceFrom(_, _, _, _)
ReplaceFrom(s, i, pat, rep) ==
  LET j == FindFrom(s, i, pat) IN
  IF j = 0 THEN SubSeq(s, i, Len(s))
  ELSE SubSeq(s, i, j - 1) \o rep \o ReplaceFrom(s, j + Len(pat), pat, rep)

Replace(s, pat, rep) == ReplaceFrom(s, 1, pat, rep)

OverWord == <<"\\", "o", "v", "e", "r">>
ChooseWord == <<"\\", "c", "h", "o", "o", "s", "e">>

\* r'((\1)/(\2))'
OverText(a, b) == <<"(", "(">> \o a \o <<")", "/", "(">> \o b \o <<")", ")">>

\* r'choose(\1,\2)'
ChooseText(a, b) ==
  <<"c", "h", "o", "o", "s", "e", "(">> \o a \o <<",">> \o b \o <<")">>

\* r'{(.*?)\\word(.*?)}' tried at position i: the groups are the shortest
\* texts between the brace, the first \word after it (at j) and the first }
\* after that (at k); k is 0 for no match
BraceMatch(s, i, word) ==
  LET j == IF s[i] = "{" THEN FindFrom(s, i + 1, word) ELSE 0
      k == IF j > 0 THEN FindFrom(s, j + Len(word), <<"}">>) ELSE 0
  IN [j |-> j, k |-> k]

\* the first position >= i where the pattern matches, or 0
BraceFrom(s, i, word) ==
  LET hits == {b \in i..Len(s) : BraceMatch(s, b, word).k > 0}
  IN IF hits = {} THEN 0 ELSE SetMin(hits)

BraceText(s, b, m, word) ==
  IF word = OverWord
  THEN OverText(SubSeq(s, b + 1, m.j - 1), SubSeq(s, m.j + Len(word), m.k - 1))
  ELSE ChooseText(SubSeq(s, b + 1, m.j - 1), SubSeq(s, m.j + Len(word), m.k - 1))

\* re.sub(r'{(.*?)\\word(.*?)}', ..., s), from position i on
RECURSIVE SubBraceFrom(_, _, _)
SubBraceFrom(s, i, word) ==
  LET b == BraceFrom(s, i, word) IN
  IF b = 0 THEN SubSeq(s, i, Len(s))
  ELSE SubSeq(s, i, b - 1) \o BraceText(s, b, BraceMatch(s, b, word), word)
       \o SubBraceFrom(s, BraceMatch(s, b, word).k + 1, word)

SubOver(s) == SubBraceFrom(s, 1, OverWord)
SubChoose(s) == SubBraceFrom(s, 1, ChooseWord)

IsDigit(c) == c \in Digits

FactorialText(ds) ==
  <<"f", "a", "c", "t", "o", "r", "i", "a", "l", "(">> \o ds \o <<")">>

\* r'(\d?\d)!' matched at position i: the digits of the group and the length
\* of the match (0 for no match); two digits are tried before one
FactorialMatch(s, i) ==
  IF i + 2 <= Len(s) /\ IsDigit(s[i]) /\ IsDigit(s[i + 1]) /\ s[i + 2] = "!"
  THEN [digits |-> 2, len |-> 3]
  ELSE IF i + 1 <= Len(s) /\ IsDigit(s[i]) /\ s[i + 1] = "!"
  THEN [digits |-> 1, len |-> 2]
  ELSE [digits |-> 0, len |-> 0]

\* the first position >= i where the pattern matches, or 0
FactorialAt(s, i) ==
  LET hits == {j \in i..Len(s) : FactorialMatch(s, j).len > 0}
  IN IF hits = {} THEN 0 ELSE SetMin(hits)

\* re.sub(r'(\d?\d)!', r'factorial(\1)', s), from position i on
RECURSIVE FactorialFrom(_, _)
FactorialFrom(s, i) ==
  LET j == FactorialAt(s, i) IN
  IF j = 0 THEN SubSeq(s, i, Len(s))
  ELSE SubSeq(s, i, j - 1)
       \o FactorialText(SubSeq(s, j, j + FactorialMatch(s, j).digits - 1))
       \o FactorialFrom(s, j + FactorialMatch(s, j).len)

FactorialRule(s) == FactorialFrom(s, 1)

\* r'([0-9\)])([a-z\(])' matches at position i
ImplicitMatch(s, i) ==
  /\ i + 1 <= Len(s)
  /\ (IsDigit(s[i]) \/ s[i] = ")")
  /\ s[i + 1] \in Letters \cup {"("}

\* the first position >= i where the pattern matches, or 0
ImplicitAt(s, i) ==
  LET hits == {j \in i..Len(s) : ImplicitMatch(s, j)}
  IN IF hits = {} THEN 0 ELSE SetMin(hits)

\* re.sub(r'([0-9\)])([a-z\(])', r'\1*\2', s), from position i on
RECURSIVE ImplicitFrom(_, _)
ImplicitFrom(s, i) ==
  LET j == ImplicitAt(s, i) IN
  IF j = 0 THEN SubSeq(s, i, Len(s))
  ELSE SubSeq(s, i, j - 1) \o <<s[j], "*", s[j + 1]>> \o ImplicitFrom(s, j + 2)

ImplicitMultRule(s) == ImplicitFrom(s, 1)

\* the position after the run of characters of cs that starts at i (i itself
\* if there is none)
RunEnd(s, i, cs) ==
  IF i > Len(s) THEN i
  ELSE SetMin({j \in i..(Len(s) + 1) : j > Len(s) \/ s[j] \notin cs})

\* the position after the run of digits that starts at i
DigitsEnd(s, i) == RunEnd(s, i, Digits)

\* the position after r'(\d+(:?\.\d+)?)' followed by '*' and the unit, matched
\* at i, or 0
UnitMatchFrom(s, a, dot, unit) ==
  Only({IF StartsAt(s, frac, <<"*">> \o unit) THEN frac
        ELSE IF StartsAt(s, a, <<"*">> \o unit) THEN a
        ELSE 0
        : frac \in {IF dot <= Len(s) /\ s[dot] = "."
                        /\ DigitsEnd(s, dot + 1) > dot + 1
                     THEN DigitsEnd(s, dot + 1) ELSE a}})

UnitMatch(s, i, unit) ==
  Only({IF a = i THEN 0
        ELSE UnitMatchFrom(s, a, IF a <= Len(s) /\ s[a] = ":" THEN a + 1 ELSE a, unit)
        : a \in {DigitsEnd(s, i)}})

\* the first position >= i where the pattern matches, or 0
UnitAt(s, i, unit) ==
  LET hits == {j \in i..Len(s) : UnitMatch(s, j, unit) > 0}
  IN IF hits = {} THEN 0 ELSE SetMin(hits)

\* re.sub(r'(\d+(:?\.\d+)?)\*unit', r'(\1*factor)', s), from position i on
RECURSIVE UnitFrom(_, _, _, _)
UnitFrom(s, i, unit, factor) ==
  LET j == UnitAt(s, i, unit) IN
  IF j = 0 THEN SubSeq(s, i, Len(s))
  ELSE SubSeq(s, i, j - 1)
       \o <<"(">> \o SubSeq(s, j, UnitMatch(s, j, unit) - 1) \o <<"*">> \o factor
       \o <<")">>
       \o UnitFrom(s, UnitMatch(s, j, unit) + 1 + Len(unit), unit, factor)

UnitRule(s, unit, factor) == UnitFrom(s, 1, unit, factor)

Last(q) == q[Len(q)]

\* lines 231 to 245: the text after each line, in order
RewriteSteps(s) ==
  LET s1 == Replace(s, <<"\\", "t", "i", "m", "e", "s">>, <<"*">>)
      s2 == Replace(s1, <<"\\", "l", "e", "f", "t", "(">>, <<"(">>)
      s3 == Replace(s2, <<"\\", "r", "i", "g", "h", "t", ")">>, <<")">>)
      s4 == SubOver(s3)
      s5 == SubChoose(s4)
      s6 == Replace(s5, <<"^">>, <<"*", "*">>)
      s7 == Replace(s6, <<"{">>, <<"(">>)
      s8 == Replace(s7, <<"}">>, <<")">>)
      s9 == Replace(s8, <<"\\">>, <<>>)
      s10 == FactorialRule(s9)
      s11 == ImplicitMultRule(s10)
      s12 == UnitRule(s11, <<"m", "m">>, <<"7", "2", "0", "/", "2", "5", "4">>)
      s13 == UnitRule(s12, <<"i", "n">>, <<"7", "2">>)
      s14 == UnitRule(s13, <<"b", "p">>, <<"1">>)
      s15 == UnitRule(s14, <<"p", "t">>, <<"7", "2", "0", "0", "/", "7", "2", "2", "7">>)
  IN <<s1, s2, s3, s4, s5, s6, s7, s8, s9, s10, s11, s12, s13, s14, s15>>

\* the text handed to eval
Rewrite(s) == Last(RewriteSteps(s))

(***************************************************************************)
(* eval: the tokens of the rewritten text.  A token is [k, v]: a number    *)
(* ("num", its value), a name ("name", its characters), an operator        *)
(* ("op"), a character no token starts with ("bad": a SyntaxError), or     *)
(* text whose meaning the model leaves out ("hard": a quote, a comma, a    *)
(* keyword, an imaginary literal, an ellipsis).                            *)
(***************************************************************************)
Tok(k, v) == [k |-> k, v |-> v]

\* the longest literal whose digits the model's numbers hold
MaxLiteralDigits == NDigits(MaxMant) - 1

\* the position after the run of name characters that starts at i
NameEnd(s, i) == RunEnd(s, i, Letters \cup Digits)

DigitValue(c) == CHOOSE d \in 0..9 : DigitChar(d) = c

\* the value of the digits ds read as a decimal number
RECURSIVE DigitsValue(_)
DigitsValue(ds) ==
  CASE Len(ds) = 0 -> 0
    [] Len(ds) = 1 -> DigitValue(ds[1])
    [] OTHER -> DigitsValue(SubSeq(ds, 1, Len(ds) \div 2))
                  * Pow10(Len(ds) - Len(ds) \div 2)
                + DigitsValue(SubSeq(ds, Len(ds) \div 2 + 1, Len(ds)))

StripLeadingZeros(ds) == LStrip(ds, "0")

\* the words Python reserves, spelled in lower case
Keywords ==
  { <<"a","n","d">>, <<"a","s">>, <<"a","s","s","e","r","t">>,
    <<"a","s","y","n","c">>, <<"a","w","a","i","t">>, <<"b","r","e","a","k">>,
    <<"c","l","a","s","s">>, <<"c","o","n","t","i","n","u","e">>, <<"d","e","f">>,
    <<"d","e","l">>, <<"e","l","i","f">>, <<"e","l","s","e">>,
    <<"e","x","c","e","p","t">>, <<"f","i","n","a","l","l","y">>, <<"f","o","r">>,
    <<"f","r","o","m">>, <<"g","l","o","b","a","l">>, <<"i","f">>,
    <<"i","m","p","o","r","t">>, <<"i","n">>, <<"i","s">>,
    <<"l","a","m","b","d","a">>, <<"n","o","n","l","o","c","a","l">>,
    <<"n","o","t">>, <<"o","r">>, <<"p","a","s","s">>, <<"r","a","i","s","e">>,
    <<"r","e","t","u","r","n">>, <<"t","r","y">>, <<"w","h","i","l","e">>,
    <<"w","i","t","h">>, <<"y","i","e","l","d">> }

\* The number literal that starts at i, with a, b and d the positions after
\* its integer part, its fraction and the digits of its exponent: [end, tok]
\* with end the position after it.  The exponent is e, an optional sign and
\* digits.
NumberTok(s, i, a, b, d) ==
  LET hasdot == b > a
      hase == b <= Len(s) /\ s[b] = "e"
      signed == hase /\ b + 1 <= Len(s) /\ s[b + 1] \in {"+", "-"}
      c == IF signed THEN b + 2 ELSE b + 1
      hasexp == hase /\ d > c
      end == IF hasexp THEN d ELSE b
      intds == SubSeq(s, i, a - 1)
      fracds == IF hasdot THEN SubSeq(s, a + 1, b - 1) ELSE <<>>
      expds == StripLeadingZeros(SubSeq(s, c, d - 1))
  IN IF signed /\ ~hasexp THEN [end |-> end, tok |-> Tok("bad", <<>>)]
     ELSE IF end <= Len(s) /\ s[end] = "j" THEN [end |-> end + 1, tok |-> Tok("hard", <<>>)]
     ELSE Only({IF ~hasdot /\ ~hasexp /\ Len(intds) > 1 /\ intds[1] = "0" /\ Len(all) > 0
                THEN [end |-> end, tok |-> Tok("bad", <<>>)]
                ELSE IF Len(RStrip(all, "0")) > MaxLiteralDigits \/ Len(expds) > 3
                THEN [end |-> end, tok |-> Tok("hard", <<>>)]
                ELSE Only({IF ~FloatRangeOk(v) THEN [end |-> end, tok |-> Tok("hard", <<>>)]
                           ELSE [end |-> end, tok |-> Tok("num", v)]
                           : v \in {Num(IF hasdot \/ hasexp THEN "float" ELSE "int", 1,
                                       DigitsValue(RStrip(all, "0")),
                                       (IF ~hasexp THEN 0
                                        ELSE IF s[b + 1] = "-" THEN 0 - DigitsValue(expds)
                                        ELSE DigitsValue(expds))
                                       - Len(fracds) + Len(all) - Len(RStrip(all, "0")))}})
                : all \in {StripLeadingZeros(intds \o fracds)}})

\* the position after the digits of the exponent that starts at b, or b
ExponentEnd(s, b) ==
  IF b <= Len(s) /\ s[b] = "e"
  THEN DigitsEnd(s, IF b + 1 <= Len(s) /\ s[b + 1] \in {"+", "-"} THEN b + 2 ELSE b + 1)
  ELSE b

\* the position after the fraction that starts at a, or a
FractionEnd(s, a) ==
  IF a <= Len(s) /\ s[a] = "." THEN DigitsEnd(s, a + 1) ELSE a

NumberAt(s, i) ==
  Only({Only({NumberTok(s, i, a, b, ExponentEnd(s, b)) : b \in {FractionEnd(s, a)}})
        : a \in {DigitsEnd(s, i)}})

\* the token that starts at position i of s, and the position after it
TokenAt(s, i) ==
  CASE IsDigit(s[i]) \/ (s[i] = "." /\ i < Len(s) /\ IsDigit(s[i + 1])) ->
         NumberAt(s, i)
    [] s[i] \in Letters ->
         [end |-> NameEnd(s, i),
          tok |-> IF SubSeq(s, i, NameEnd(s, i) - 1) \in Keywords
                  THEN Tok("hard", <<>>)
                  ELSE Tok("name", SubSeq(s, i, NameEnd(s, i) - 1))]
    [] StartsAt(s, i, <<".", ".", ".">>) -> [end |-> i + 3, tok |-> Tok("hard", <<>>)]
    [] StartsAt(s, i, <<"*", "*">>) -> [end |-> i + 2, tok |-> Tok("op", "**")]
    [] StartsAt(s, i, <<"/", "/">>) -> [end |-> i + 2, tok |-> Tok("op", "//")]
    [] s[i] = "!" -> [end |-> i + 1, tok |-> Tok("bad", <<>>)]
    [] OTHER ->
         [end |-> i + 1,
          tok |-> IF s[i] \in {"+", "-", "*", "/", "(", ")", "."}
                  THEN Tok("op", s[i])
                  ELSE Tok("hard", <<>>)]

\* the tokens of s from position i on
RECURSIVE Tokens(_, _)
Tokens(s, i) ==
  IF i > Len(s) THEN <<>> ELSE <<TokenAt(s, i).tok>> \o Tokens(s, TokenAt(s, i).end)

(***************************************************************************)
(* eval: the names of the module's namespace and of the builtins.  The     *)
(* model holds those spelled with ModelLetters, and factorial, which the   *)
(* rewriting introduces; a name spelled with other letters is left out.    *)
(***************************************************************************)
ModelLetters == {"e", "g", "l", "n", "o"}

NameE == <<"e">>
NameLog == <<"l", "o", "g">>
NameLen == <<"l", "e", "n">>
NameFactorial == <<"f", "a", "c", "t", "o", "r", "i", "a", "l">>

EFloat == [t |-> "efloat"]
Func(name) == [t |-> "func", name |-> name]
EmptyTuple == [t |-> "tuple"]

\* from math import ..., e, ..., factorial, ..., log, ... (lines 27 to 29)
ModuleGlobals == {NameE, NameLog, NameFactorial}

\* the builtins eval() adds to the globals it is given
Builtins == {NameLen}

\* eval(s) looks a name up in the module's globals, then in the builtins
Lookup(name) ==
  IF name = NameE THEN Ok(EFloat)
  ELSE IF name \in ModuleGlobals \cup Builtins THEN Ok(Func(name))
  ELSE IF \A i \in 1..Len(name) : name[i] \in ModelLetters \cup Digits
  THEN Raise("NameError")
  ELSE Unmodelled

\* 0!, 1!, ... 12!
SmallFactorials ==
  <<1, 1, 2, 6, 24, 120, 720, 5040, 40320, 362880, 3628800, 39916800, 479001600>>

\* n times the factorial r of n - 1
FactorialTimes(n, r) == IF r.st # "ok" THEN r ELSE NumMul(IntVal(n), r.v)

\* math.factorial(n) for a plain n >= 0
RECURSIVE FactorialOf(_)
FactorialOf(n) ==
  IF n < Len(SmallFactorials) THEN Ok(IntVal(SmallFactorials[n + 1]))
  ELSE FactorialTimes(n, FactorialOf(n - 1))

\* the largest argument factorial is worked out for: 15! has more digits
\* than a mantissa holds
MaxFactorialArg == 14

\* math.log(x)
LogOf(x) ==
  CASE x.t = "efloat" -> Ok(Num("float", 1, 1, 0))
    [] x.t # "efloat" /\ ~IsNum(x) -> Raise("TypeError")
    [] IsNum(x) /\ (x.m = 0 \/ x.s < 0) -> Raise("ValueError")
    [] IsNum(x) /\ x.s > 0 /\ x.m = 1 /\ x.x = 0 -> Ok(Num("float", 1, 0, 0))
    [] OTHER -> Unmodelled

\* math.factorial(x)
FactorialCall(x) ==
  CASE x.t \in {"efloat", "float"} -> Unmodelled
    [] x.t \notin {"efloat", "float", "int"} -> Raise("TypeError")
    [] x.t = "int" /\ x.s < 0 -> Raise("ValueError")
    [] x.t = "int" /\ x.s >= 0 /\ IsSmallInt(x) /\ PlainInt(x) <= MaxFactorialArg ->
         FactorialOf(PlainInt(x))
    [] OTHER -> Unmodelled

\* f(x) for the function named f
CallOne(name, x) ==
  CASE name = NameLog -> LogOf(x)
    [] name = NameLen -> IF x.t = "tuple" THEN Ok(IntVal(0)) ELSE Raise("TypeError")
    [] name = NameFactorial -> FactorialCall(x)
    [] OTHER -> Unmodelled

\* f(...) with the argument list how: "none", "one", "star" or "starstar"
Call(f, how, x) ==
  CASE f.t # "func" -> Raise("TypeError")
    [] f.t = "func" /\ how = "one" -> CallOne(f.name, x)
    [] OTHER -> Raise("TypeError")

\* a op b for numbers a and b
Arith(op, a, b) ==
  CASE op = "+" -> NumAdd(a, b)
    [] op = "-" -> NumSub(a, b)
    [] op = "*" -> NumMul(a, b)
    [] op = "/" -> NumTrueDiv(a, b)
    [] op = "//" -> NumFloorDiv(a, b)
    [] op = "**" -> NumPow(a, b)

\* () + () and () * n, n * () are ()
TupleResult(op, a, b) ==
  \/ a.t = "tuple" /\ b.t = "tuple" /\ op = "+"
  \/ op = "*" /\ a.t = "tuple" /\ b.t = "int"
  \/ op = "*" /\ a.t = "int" /\ b.t = "tuple"

\* a op b
Binary(op, a, b) ==
  CASE IsNum(a) /\ IsNum(b) -> Arith(op, a, b)
    [] TupleResult(op, a, b) -> Ok(EmptyTuple)
    [] ~TupleResult(op, a, b) /\ (a.t \in {"func", "tuple"} \/ b.t \in {"func", "tuple"}) ->
         Raise("TypeError")
    [] OTHER -> IF op \in {"/", "//"} /\ IsNum(b) /\ b.m = 0
                THEN Raise("ZeroDivisionError")
                ELSE Unmodelled

\* +a, -a
Unary(op, a) ==
  CASE a.t \in {"func", "tuple"} -> Raise("TypeError")
    [] a.t = "efloat" -> Unmodelled
    [] IsNum(a) /\ op = "-" -> Ok(NumNeg(a))
    [] OTHER -> Ok(a)

(***************************************************************************)
(* eval: the parser.  Python compiles the whole text before it evaluates   *)
(* any of it, so a SyntaxError anywhere comes before every other           *)
(* exception.  A parse is [syn, n, i]: syn for a SyntaxError, n the        *)
(* expression parsed, i the next token.                                    *)
(***************************************************************************)
NoNode == [k |-> "none"]
NumNode(v) == [k |-> "num", v |-> v]
NameNode(name) == [k |-> "name", name |-> name]
TupleNode == [k |-> "tuple"]
BinNode(op, l, r) == [k |-> "bin", op |-> op, l |-> l, r |-> r]
UnNode(op, a) == [k |-> "un", op |-> op, a |-> a]
CallNode(f, how, a) == [k |-> "call", f |-> f, how |-> how, a |-> a]
AttrNode(a) == [k |-> "attr", a |-> a]

PSyn == [syn |-> TRUE, n |-> NoNode, i |-> 0]
P(n, i) == [syn |-> FALSE, n |-> n, i |-> i]

IsOp(toks, i, ops) == i <= Len(toks) /\ toks[i].k = "op" /\ toks[i].v \in ops

\* the operators between two operands and how tightly each binds: the sum
\* (1), the term (2), the power (4); a sign binds as a factor (3)
BinaryOps == {"+", "-", "*", "/", "//", "**"}

OpLevel(op) ==
  CASE op \in {"+", "-"} -> 1
    [] op \in {"*", "/", "//"} -> 2
    [] op = "**" -> 4

\* the level of the right operand: a term after '+' and '-', a factor after
\* '*', '/' and '//', and a factor after '**', which groups to the right
RightLevel(op) ==
  CASE op \in {"+", "-"} -> 2
    [] op \in {"*", "/", "//"} -> 3
    [] op = "**" -> 3

\* l op r from the parse r of the right operand
Joined(op, l, r) == IF r.syn THEN r ELSE P(BinNode(op, l.n, r.n), r.i)

\* op a from the parse r of a
Prefixed(op, r) == IF r.syn THEN r ELSE P(UnNode(op, r.n), r.i)

\* '(' expr ')' from the parse r of expr: the ')' has to follow
Closed(toks, r) ==
  CASE r.syn -> PSyn
    [] ~r.syn /\ ~IsOp(toks, r.i, {")"}) -> PSyn
    [] OTHER -> [r EXCEPT !.i = r.i + 1]

\* f '(' arg ')' from the parse r of the argument
CallWith(toks, f, how, r) ==
  CASE r.syn -> PSyn
    [] ~r.syn /\ ~IsOp(toks, r.i, {")"}) -> PSyn
    [] OTHER -> P(CallNode(f.n, how, r.n), r.i + 1)

\* trailer: '.' NAME
AttrAt(toks, acc) ==
  IF acc.i + 1 <= Len(toks) /\ toks[acc.i + 1].k = "name"
  THEN P(AttrNode(acc.n), acc.i + 2)
  ELSE PSyn

RECURSIVE ParseBin(_, _, _), Climb(_, _, _), CallAt(_, _), ParseFactor(_, _),
          ParseAtom(_, _)

\* an expression of operators that bind at level minp or tighter
\*   sum (1):    term (('+' | '-') term)*
\*   term (2):   factor (('*' | '/' | '//') factor)*
\*   factor (3): ('+' | '-') factor | power
\*   power:      primary ['**' factor]
\*   primary:    atom trailer*
ParseBin(toks, i, minp) == Climb(toks, ParseFactor(toks, i), minp)

\* what follows the expression acc: an operator of level minp or tighter and
\* its right operand, or a trailer.  A trailer and '**' only follow a
\* primary: every one after an operand is taken up with that operand.
Climb(toks, acc, minp) ==
  CASE acc.syn -> acc
    [] ~acc.syn /\ IsOp(toks, acc.i, BinaryOps) /\ OpLevel(toks[acc.i].v) >= minp ->
         Climb(toks,
               Joined(toks[acc.i].v, acc,
                      ParseBin(toks, acc.i + 1, RightLevel(toks[acc.i].v))),
               minp)
    [] ~acc.syn /\ IsOp(toks, acc.i, {"("}) -> Climb(toks, CallAt(toks, acc), minp)
    [] ~acc.syn /\ IsOp(toks, acc.i, {"."}) -> Climb(toks, AttrAt(toks, acc), minp)
    [] OTHER -> acc

\* trailer: '(' [arg] ')', with arg: expr | '*' expr | '**' expr
CallAt(toks, f) ==
  CASE IsOp(toks, f.i + 1, {")"}) -> P(CallNode(f.n, "none", TupleNode), f.i + 2)
    [] IsOp(toks, f.i + 1, {"*", "**"}) ->
         CallWith(toks, f, "star", ParseBin(toks, f.i + 2, 1))
    [] OTHER -> CallWith(toks, f, "one", ParseBin(toks, f.i + 1, 1))

\* factor: ('+' | '-') factor | power
ParseFactor(toks, i) ==
  IF IsOp(toks, i, {"+", "-"})
  THEN Prefixed(toks[i].v, ParseBin(toks, i + 1, 3))
  ELSE ParseAtom(toks, i)

\* atom: NAME | NUMBER | '(' ')' | '(' expr ')'
ParseAtom(toks, i) ==
  CASE i > Len(toks) -> PSyn
    [] i <= Len(toks) /\ toks[i].k = "num" -> P(NumNode(toks[i].v), i + 1)
    [] i <= Len(toks) /\ toks[i].k = "name" -> P(NameNode(toks[i].v), i + 1)
    [] IsOp(toks, i, {"("}) /\ IsOp(toks, i + 1, {")"}) -> P(TupleNode, i + 2)
    [] IsOp(toks, i, {"("}) /\ ~IsOp(toks, i + 1, {")"}) ->
         Closed(toks, ParseBin(toks, i + 1, 1))
    [] OTHER -> PSyn

\* the whole expression
ParseExpr(toks, i) == ParseBin(toks, i, 1)

(***************************************************************************)
(* eval: the evaluation of the expression parsed, its operands from left   *)
(* to right; the first exception raised is the outcome.                    *)
(***************************************************************************)
\* the outcome of op on the outcomes of its operands
Both(op, l, r) ==
  CASE l.st # "ok" -> l
    [] l.st = "ok" /\ r.st # "ok" -> r
    [] OTHER -> Binary(op, l.v, r.v)

\* the outcome of calling f with the argument list how and the argument r
Called(f, how, r) ==
  CASE f.st # "ok" -> f
    [] f.st = "ok" /\ r.st # "ok" -> r
    [] OTHER -> Call(f.v, how, r.v)

\* the outcome of op on the outcome of its operand
Signed(op, a) == IF a.st # "ok" THEN a ELSE Unary(op, a.v)

RECURSIVE EvalNode(_)
EvalNode(n) ==
  CASE n.k = "num" -> Ok(n.v)
    [] n.k = "name" -> Lookup(n.name)
    [] n.k = "tuple" -> Ok(EmptyTuple)
    [] n.k = "un" -> Signed(n.op, EvalNode(n.a))
    [] n.k = "bin" -> Both(n.op, EvalNode(n.l), EvalNode(n.r))
    [] n.k = "call" -> Called(EvalNode(n.f), n.how, EvalNode(n.a))
    [] n.k = "attr" -> Called(EvalNode(n.a), "attr", Unmodelled)

HasKind(toks, k) == \E i \in 1..Len(toks) : toks[i].k = k

\* the outcome of the parse r of all of toks
EvalParsed(toks, r) ==
  IF r.syn \/ r.i # Len(toks) + 1 THEN Raise("SyntaxError") ELSE EvalNode(r.n)

EvalTokens(toks) ==
  CASE HasKind(toks, "hard") -> Unmodelled
    [] ~HasKind(toks, "hard") /\ HasKind(toks, "bad") -> Raise("SyntaxError")
    [] OTHER -> EvalParsed(toks, ParseExpr(toks, 1))

\* eval(s): st is "ok" with the value v, the exception raised, or "unmodelled"
Eval(s) == EvalTokens(Tokens(s, 1))

(***************************************************************************)
(* workout and evaluate_expression                                         *)
(***************************************************************************)
StrVal(text) == [t |-> "str", text |-> text]

\* the handlers of workout's try: which exceptions of eval(s) are caught
WorkoutCatches(name) == name \in {"SyntaxError", "ValueError"}

\* what the handler returns
WorkoutHandler(name, s) ==
  IF name = "SyntaxError" THEN <<"[">> \o s \o <<"]">> ELSE <<"?">> \o s

\* lines 248 to 251 on the outcome r of eval(s)
WorkoutResult(s, r) ==
  IF WorkoutCatches(r.st) THEN Ok(StrVal(WorkoutHandler(r.st, s))) ELSE r

\* lines 246 to 251 on the text s rewritten
WorkoutEval(s) == WorkoutResult(s, Eval(s))

\* workout(s): st is "ok" with the value v returned, the exception that
\* leaves workout, or "unmodelled"
workout(s) == WorkoutEval(Rewrite(s))

\* repr() of a builtin function
BuiltinText(name) ==
  <<"<", "b", "u", "i", "l", "t", "-", "i", "n", " ",
    "f", "u", "n", "c", "t", "i", "o", "n", " ">> \o name \o <<">">>

\* repr(math.e) and '%g' % math.e
ReprE == <<"2", ".", "7", "1", "8", "2", "8", "1", "8", "2", "8", "4", "5", "9",
           "0", "4", "5">>
GTextE == <<"2", ".", "7", "1", "8", "2", "8">>

\* Fraction(math.e).limit_denominator()
FractionENum == <<"1", "0", "8", "4", "4", "8", "3">>
FractionEDen == <<"3", "9", "8", "9", "5", "9">>

\* '{0}'.format(v)
Str(v) ==
  IF v.t = "str" THEN v.text
  ELSE IF v.t = "int" THEN StrInt(v)
  ELSE IF v.t = "float" THEN ReprFloat(v)
  ELSE IF v.t = "efloat" THEN ReprE
  ELSE IF v.t = "tuple" THEN <<"(", ")">>
  ELSE BuiltinText(v.name)

EndsWith(s, ch) == Len(s) > 0 /\ s[Len(s)] = ch

Text(st, text) == [st |-> st, text |-> text]

\* 1e-15 of line 335
Epsilon == Num("float", 1, 1, 0 - 15)

\* the try block of lines 334 to 336 for a number: '%g' % answer, float() of
\* it, the comparison and the text returned
ApproxRel(target, approx, d) ==
  IF d.st # "ok" THEN Text("unmodelled", <<>>)
  ELSE IF d.v.m # 0 /\ DecPt(d.v) \in {DecPt(Epsilon) - 1, DecPt(Epsilon)}
  THEN Text("unmodelled", <<>>)
  ELSE Text("ok", target \o <<" ">>
                  \o (IF d.v.m = 0 \/ DecPt(d.v) < DecPt(Epsilon) - 1
                      THEN <<"=">>
                      ELSE <<"\\", "s", "i", "m", "e", "q">>)
                  \o <<" ">> \o GText(approx))

\* the text for the answer ans and r, the outcome of float('%g' % ans)
ApproxOf(target, ans, r) ==
  IF r.st # "ok" THEN Text("unmodelled", <<>>)
  ELSE ApproxRel(target, r.v, AbsDiff(ans, r.v))

ApproxText(target, ans) ==
  IF ans.t = "int" /\ DecPt(ans) > 300 THEN Text("unmodelled", <<>>)
  ELSE ApproxOf(target, ans, RoundSig6(ans))

\* the exception the try block of lines 334 to 336 raises on an answer that
\* is no number: '%g' % answer is a TypeError for a str, a tuple, a function
ApproxRaises(ans) == "TypeError"

\* the handlers of lines 337 to 340
EqualsHandler(name, target, ans) ==
  IF name = "TypeError" THEN Text("ok", target \o <<" ", "=", " ">> \o Str(ans))
  ELSE IF name = "ValueError" THEN Text("ok", Str(ans) \o <<"?">>)
  ELSE Text(name, <<>>)

\* lines 333 to 340 on the outcome w of workout(target)
EqualsText(target, w) ==
  CASE w.st # "ok" -> Text(w.st, <<>>)
    [] w.st = "ok" /\ IsNum(w.v) -> ApproxText(target, w.v)
    [] w.st = "ok" /\ w.v.t = "efloat" ->
         Text("ok", target \o <<" ", "\\", "s", "i", "m", "e", "q", " ">> \o GTextE)
    [] OTHER -> EqualsHandler(ApproxRaises(w.v), target, w.v)

\* lines 330 to 340: the expression ends with '='
EqualsMode(target) == EqualsText(Strip(target, "="), workout(Strip(target, "=")))

\* the denominator limit_denominator() allows
MaxDenominator == 1000000

\* Fraction(v).limit_denominator() of a number v: [st, num, den] with num and
\* den as texts
FractionOf(v) ==
  IF v.m = 0 THEN [st |-> "ok", num |-> <<"0">>, den |-> <<"1">>]
  ELSE IF v.x >= 0
  THEN (IF v.t = "float" /\ ~ExactDouble(v) THEN [st |-> "unmodelled"]
        ELSE [st |-> "ok", num |-> StrInt(v), den |-> <<"1">>])
  ELSE IF 0 - v.x > MaxPow THEN [st |-> "unmodelled"]
  ELSE LET g == Gcd(v.m, Pow10(0 - v.x))
           d == Pow10(0 - v.x) \div g
       IN IF d > MaxDenominator THEN [st |-> "unmodelled"]
          ELSE [st |-> "ok",
                num |-> SignText(v) \o DigitsOf(v.m \div g),
                den |-> DigitsOf(d)]

FractionText(target, num, den) ==
  target \o <<" ", "=", " ", "{">> \o num \o <<"\\", "o", "v", "e", "r">> \o den
  \o <<"}">>

\* line 345 on q, the outcome of Fraction(...).limit_denominator()
FractionOfText(target, q) ==
  IF q.st # "ok" THEN Text(q.st, <<>>)
  ELSE Text("ok", FractionText(target, q.num, q.den))

\* lines 344 and 345 on the outcome w of workout(target)
FractionModeText(target, w) ==
  CASE w.st # "ok" -> Text(w.st, <<>>)
    [] w.st = "ok" /\ IsNum(w.v) -> FractionOfText(target, FractionOf(w.v))
    [] w.st = "ok" /\ w.v.t = "efloat" ->
         Text("ok", FractionText(target, FractionENum, FractionEDen))
    [] w.st = "ok" /\ w.v.t = "str" -> Text("ValueError", <<>>)
    [] OTHER -> Text("TypeError", <<>>)

\* lines 342 to 345: the expression ends with a backslash
FractionMode(target) ==
  FractionModeText(Strip(target, "\\"), workout(Strip(target, "\\")))

\* line 347 on the outcome w of workout(target)
PlainText(w) == IF w.st # "ok" THEN Text(w.st, <<>>) ELSE Text("ok", Str(w.v))

\* line 347
PlainMode(target) == PlainText(workout(target))

\* evaluate_expression(target): st is "ok" with the text returned, the
\* exception raised, or "unmodelled"
evaluate_expression(target) ==
  CASE Len(target) = 0 -> Text("ok", <<>>)
    [] EndsWith(target, "=") -> EqualsMode(target)
    [] EndsWith(target, "\\") -> FractionMode(target)
    [] OTHER -> PlainMode(target)

(***************************************************************************)
(* The filter: the main block of lines 350 to 361, run on the editor's     *)
(* current line and cursor each time the key is pressed.                   *)
(*   pc = "ready"      the key may be pressed                              *)
(*   pc = "scanned"    find_expression has returned                        *)
(*   pc = "evaluated"  evaluate_expression has returned                    *)
(*   pc = "raised"     an exception other than ImportError left the block  *)
(***************************************************************************)
NoText == <<>>

\* line 356
Scan ==
  /\ pc = "ready"
  /\ round < MaxRounds
  /\ \E r \in {find_expression(line, col)} :
     IF r.raised # "none"
     THEN /\ pc' = "raised"
          /\ exc' = r.raised
          /\ UNCHANGED <<prefix, expression, suffix>>
     ELSE /\ pc' = "scanned"
          /\ prefix' = r.prefix
          /\ expression' = r.expression
          /\ suffix' = r.suffix
          /\ exc' = "none"
  /\ round' = round + 1
  /\ UNCHANGED <<line, col, answer, args, ret>>

\* line 357
Evaluate ==
  /\ pc = "scanned"
  /\ \E r \in {evaluate_expression(expression)} :
     /\ r.st # "unmodelled"
     /\ IF r.st = "ok"
        THEN /\ pc' = "evaluated"
             /\ answer' = r.text
             /\ UNCHANGED exc
        ELSE /\ pc' = "raised"
             /\ exc' = r.st
             /\ UNCHANGED answer
  /\ UNCHANGED <<line, col, prefix, expression, suffix, round, args, ret>>

\* lines 358 and 359
Write ==
  /\ pc = "evaluated"
  /\ line' = prefix \o answer \o suffix \o <<" ">>
  /\ col' = Len(prefix \o answer)
  /\ pc' = "ready"
  /\ UNCHANGED <<prefix, expression, suffix, answer, exc, round, args, ret>>

Next == Scan \/ Evaluate \/ Write

\* the lines of the scanner's specification: blanks, a character outside the
\* alphabet, the sentinel and expression characters, the cursor anywhere
ScanChars == {" ", "#", "=", "1", "+"}

\* lines 353 and 354: the line and the cursor column are the editor's
InitFilter(inputs) ==
  /\ \E lc \in inputs : line = lc[1] /\ col = lc[2]
  /\ prefix = NoText
  /\ expression = NoText
  /\ suffix = NoText
  /\ answer = NoText
  /\ pc = "ready"
  /\ exc = "none"
  /\ round = 0
  /\ args = <<>>
  /\ ret = <<>>

\* every column from 0 to len(line): Vim's cursor is on a character of the
\* line, or one past the last with 'virtualedit' set to onemore
AnyCol(lines) == {lc \in lines \X (0..MaxLineLen) : lc[2] <= Len(lc[1])}

Init == InitFilter(AnyCol(SeqsUpTo(ScanChars, MaxLineLen)))

Spec == Init /\ [][Next]_vars

(***************************************************************************)
(* Specifications of the filter on lines that hold one expression, the     *)
(* cursor on its last character (where <ESC> leaves it after typing).      *)
(* An expression is up to MaxToks lexemes, then a sentinel or none.        *)
(***************************************************************************)
RECURSIVE Concat(_)
Concat(ts) == IF Len(ts) = 0 THEN <<>> ELSE Head(ts) \o Concat(Tail(ts))

Sentinels == {<<>>, <<"=">>, <<"\\">>}

ExprLines(lexemes, sentinels) ==
  {Concat(ts) \o sen : ts \in SeqsUpTo(lexemes, MaxToks), sen \in sentinels}

LastCol(lines) == {<<ln, IF Len(ln) = 0 THEN 0 ELSE Len(ln) - 1>> : ln \in lines}

\* arithmetic, calls and names, in the three modes
EvalLexemes == {<<"1">>, <<"0">>, <<"/">>, <<"-">>, <<"(">>, <<")">>, NameLog, NameLen}

InitEval == InitFilter(LastCol(ExprLines(EvalLexemes, Sentinels)))

SpecEval == InitEval /\ [][Next]_vars

\* numbers small and large, as plain expressions
NumberLexemes == {<<"1">>, <<"5">>, <<"6">>, <<".">>, <<"^">>, <<"-">>, <<"/">>, <<"*">>}

InitNumber == InitFilter(LastCol(ExprLines(NumberLexemes, {<<>>})))

SpecNumber == InitNumber /\ [][Next]_vars

\* factorials of digit strings, as plain expressions
FactorialLexemes == {<<"0">>, <<"1">>, <<"2">>, <<"!">>}

InitFactorial == InitFilter(LastCol(ExprLines(FactorialLexemes, {<<>>})))

SpecFactorial == InitFactorial /\ [][Next]_vars

(***************************************************************************)
(* Specifications of the library functions: a call and its return.         *)
(***************************************************************************)
InitCall(argsets) ==
  /\ args \in argsets
  /\ ret = <<>>
  /\ pc = "call"
  /\ line = NoText
  /\ col = 0
  /\ prefix = NoText
  /\ expression = NoText
  /\ suffix = NoText
  /\ answer = NoText
  /\ exc = "none"
  /\ round = 0

Return(value) ==
  /\ pc = "call"
  /\ ret' = <<value>>
  /\ pc' = "returned"
  /\ UNCHANGED <<line, col, prefix, expression, suffix, answer, exc, round, args>>

CallChoose == Return(choose(args[1], args[2]))

InitChoose == InitCall((MinArg..MaxN) \X (MinArg..MaxN))

SpecChoose == InitChoose /\ [][CallChoose]_vars

CallFactors == Return(factors(args[1]))

InitFactors == InitCall({<<n>> : n \in MinArg..MaxFactorN})

SpecFactors == InitFactors /\ [][CallFactors]_vars

(***************************************************************************)
(* Properties of the library functions.                                    *)
(***************************************************************************)
RECURSIVE Factorial(_)
Factorial(n) == IF n <= 0 THEN 1 ELSE n * Factorial(n - 1)

\* C5: choose(n, k) is the binomial coefficient n!/(k!(n-k)!) when
\* 0 <= k <= n, its last division leaves no remainder, it is the same for k
\* and n-k, and it is 0 when k is outside [0, n]
C5_ChooseIsBinomial ==
  pc = "returned" =>
    LET n == args[1]
        k == args[2]
        v == ret[1]
    IN IF 0 <= k /\ k <= n
       THEN /\ v * Factorial(k) * Factorial(n - k) = Factorial(n)
            /\ ChooseToks(n, k).ntok % ChooseToks(n, k).ktok = 0
            /\ v = choose(n, n - k)
       ELSE v = 0

\* choose(9, 4) has returned 126, after four rounds of the loop
C5_Witness == pc = "returned" /\ args = <<9, 4>> /\ ret = <<126>>

IsPrime(p) == p > 1 /\ \A d \in 2..(p - 1) : p % d # 0

RECURSIVE Product(_)
Product(f) == IF Len(f) = 0 THEN 1 ELSE Head(f) * Product(Tail(f))

NonBlanks(s) == SelectSeq(s, LAMBDA ch : ch # " ")

\* C1: for 0 <= col < len(line) the three parts returned by find_expression
\* hold every non-blank character of the line, in order, and at most one
\* blank of the line is missing from them
C1_NoNonBlankDropped ==
  (pc = "scanned" /\ col < Len(line)) =>
    LET parts == prefix \o expression \o suffix IN
    /\ NonBlanks(parts) = NonBlanks(line)
    /\ Len(line) - Len(parts) <= 1

\* C7: for every col in [0, len(line)] find_expression returns without
\* raising; the empty line gives ('', '', '') and col == 0 gives ('', '', line)
C7_DefinedOnCursorRange ==
  /\ pc = "raised" => exc # "IndexError"
  /\ (pc = "scanned" /\ Len(line) = 0) =>
       (prefix = <<>> /\ expression = <<>> /\ suffix = <<>>)
  /\ (pc = "scanned" /\ Len(line) > 0 /\ col = 0) =>
       (prefix = <<>> /\ expression = <<>> /\ suffix = line)

FirstExpressionAt(ln, c) ==
  LET at == {i \in 0..c : ln[i + 1] \in FirstChars}
  IN IF at = {} THEN 0 - 1 ELSE CHOOSE i \in at : \A j \in at : j <= i

\* the blanks read before the first character of the expression
BlanksBefore(ln, c) ==
  Cardinality({i \in (FirstExpressionAt(ln, c) + 1)..c : ln[i + 1] = " "})

C2_EvaluateNeverRaises == pc = "raised" => exc = "IndexError"

\* the functions and constants of the math library, by name
Allowlist ==
  {<<"a", "c", "o", "s">>, <<"a", "s", "i", "n">>, <<"a", "t", "a", "n">>,
   <<"a", "t", "a", "n", "2">>, <<"c", "e", "i", "l">>,
   <<"c", "o", "m", "b">>, <<"c", "o", "s">>,
   <<"d", "e", "g", "r", "e", "e", "s">>, <<"e">>, <<"e", "x", "p">>,
   <<"f", "a", "b", "s">>, <<"f", "a", "c", "t", "o", "r", "i", "a", "l">>,
   <<"f", "l", "o", "o", "r">>, <<"g", "c", "d">>,
   <<"h", "y", "p", "o", "t">>, <<"l", "o", "g">>, <<"p", "e", "r", "m">>,
   <<"p", "i">>, <<"r", "a", "d", "i", "a", "n", "s">>, <<"s", "i", "n">>,
   <<"s", "q", "r", "t">>, <<"t", "a", "n">>, <<"d", "o", "w">>,
   <<"d", "a", "t", "e">>, <<"b", "a", "s", "e">>, <<"l", "c", "m">>,
   <<"i", "f", "a", "c", "t", "o", "r", "s">>,
   <<"f", "a", "c", "t", "o", "r", "s">>, <<"p", "h", "i">>,
   <<"s", "i", "n", "d">>, <<"c", "o", "s", "d">>, <<"t", "a", "n", "d">>,
   <<"a", "n", "g", "l", "e">>, <<"d", "i", "r">>, <<"m", "e", "x", "p">>,
   <<"m", "l", "o", "g">>, <<"a", "b", "s">>,
   <<"c", "h", "o", "o", "s", "e">>}

\* the identifiers of an expression that the allowlist does not hold
NamesOutside(text) ==
  LET toks == Tokens(Rewrite(text), 1) IN
  {toks[i].v : i \in {j \in 1..Len(toks) : toks[j].k = "name"}} \ Allowlist

IsPlain(text) == ~EndsWith(text, "=") /\ ~EndsWith(text, "\\")

IsErrorText(text) == Len(text) > 0 /\ text[1] \in {"[", "?"}

\* C3: an identifier outside the allowlist does not resolve: a plain
\* expression that names one evaluates to an error result
C3_OnlyAllowlistResolves ==
  (pc = "evaluated" /\ IsPlain(expression) /\ NamesOutside(expression) # {}) =>
    IsErrorText(answer)

\* C4: in '=' mode a malformed expression gives 'EXPR = ERROR_TEXT' and a
\* value-domain error gives 'ERROR_TEXT?', ERROR_TEXT being what workout
\* returns for the failure
C4_EqualsModeErrorForms ==
  (pc = "evaluated" /\ EndsWith(expression, "=")) =>
    LET target == Strip(expression, "=")
        s == Rewrite(target)
        r == Eval(s)
    IN /\ r.st = "SyntaxError" =>
            answer = target \o <<" ", "=", " ">> \o WorkoutHandler(r.st, s)
       /\ r.st = "ValueError" =>
            answer = WorkoutHandler(r.st, s) \o <<"?">>

AllIn(text, chars) == \A i \in 1..Len(text) : text[i] \in chars

\* a non-empty string of digits followed by '!'
IsFactorialOfDigits(text) ==
  /\ Len(text) > 1
  /\ Len(text) <= MaxLiteralDigits
  /\ text[Len(text)] = "!"
  /\ AllIn(SubSeq(text, 1, Len(text) - 1), Digits)

\* C10: for a digit string N of any length the text N! evaluates to the
\* factorial of N or to an error result, never to another number (13! and
\* the factorials above it have ten digits or more)
C10_FactorialNeverWrong ==
  (pc = "evaluated" /\ IsFactorialOfDigits(expression)) =>
    LET n == DigitsValue(SubSeq(expression, 1, Len(expression) - 1)) IN
    \/ IsErrorText(answer)
    \/ n <= 12 /\ answer = DigitsOf(Factorial(n))
    \/ n > 12 /\ Len(answer) >= 10 /\ AllIn(answer, Digits)

(***************************************************************************)
(* Properties of a second invocation, on the line and cursor the first     *)
(* one wrote.  The lines of SpecNumber are one plain expression, so the    *)
(* text before the cursor is the first invocation's answer.                *)
(***************************************************************************)
\* line 359: the cursor is left at len(prefix + answer)
Displayed == SubSeq(line, 1, col)

\* the text of a number: an int, or a float with or without an exponent part
IsNumberText(text) ==
  /\ Len(text) > 0
  /\ text[1] \in Digits \cup {"-"}
  /\ AllIn(text, Digits \cup {"-", ".", "e", "+"})

\* C8 as stated: a plain expression's numeric result, evaluated again by a
\* second invocation on the line and cursor the first one left, gives the
\* same text
C8_SecondInvocationKeepsNumber ==
  (round = 2 /\ IsNumberText(Displayed)) =>
    /\ pc # "raised"
    /\ pc = "evaluated" => answer = Displayed

====
